---- MODULE Spec2Model ----
(***************************************************************************)
(* Oslo Bysykkel station availability: the four programs of the repository *)
(* (src/main.go and the three programs of src/unnamed/part_000) share the  *)
(* fetch / decode / join pipeline.  The variants are                       *)
(*   "main"       src/main.go: concurrent fetch, no join                   *)
(*   "server"     part_000 lines 1-325: HTTP server with go-cache          *)
(*   "sequential" part_000 lines 327-466: two sequential fetches           *)
(*   "terminal"   part_000 lines 468-756: terminal table                   *)
(***************************************************************************)
EXTENDS Integers, Sequences, FiniteSets, TLC

VARIABLES
    variant,         \* which program is running
    call,            \* SpecFetch: the last direct call of a fetch function and its result
    fdpc,            \* position of fetchData: "idle", "select", "returned"
    i,               \* fetchData: loop counter of the receive loop
    gpc,             \* per feed: position of the fetch goroutine
    channel,         \* per feed: the value a goroutine is blocked sending, or NoValue
    closed,          \* per feed: whether the channel has been closed
    received,        \* fetchData: the channels received from, in order
    got,             \* fetchData: the result received from each feed
    requests,        \* per feed: the HTTP requests its fetch has issued, in order
    informationMap,  \* fetchData: local lookup of the metadata feed
    statusMap,       \* fetchData: local lookup of the status feed
    err,             \* fetchData: local err
    ret,             \* fetchData: the returned values
    logs,            \* log lines printed since the call of fetchData began
    heap,            \* the map objects made by fetchData of "server", by reference
    upc,             \* position of updateStationsCache: "none", "start", "fetching", "sleep"
    cycle,           \* the number of refresh cycles begun
    stationsCache,   \* the go-cache item under cacheKey
    viewBefore,      \* the item and its stations when the current cycle began
    published,       \* history: the cycle whose stations were last Set, and those stations
    handled,         \* history: the number of cycles whose outcome the loop has handled
    readers,         \* per HTTP request in progress: the locals of its handler
    table,           \* "terminal": the rows of the table, the header row first
    frameMessage     \* "terminal": the message line of the frame

vars == <<variant, call, fdpc, i, gpc, channel, closed, received, got, requests,
          informationMap, statusMap, err, ret, logs, heap,
          upc, cycle, stationsCache, viewBefore, published, handled, readers,
          table, frameMessage>>

\* The variables of the refresh loop and of the HTTP handlers.
serverVars == <<upc, cycle, stationsCache, viewBefore, published, handled, readers,
                table, frameMessage>>

\* The variables of the refresh loop alone.
loopVars == <<upc, cycle, stationsCache, viewBefore, published, handled,
              table, frameMessage>>

----------------------------------------------------------------------------
(* Bounds and input domains *)

MaxStations == 2

MaxCycles == 2

Readers == {"r1"}

StatusOK == 200

StatusInternalServerError == 500

StatusNotFound == 404

Variants == {"main", "server", "sequential", "terminal"}

ConcurrentVariants == {"main", "server", "terminal"}

JoiningVariants == {"server", "terminal"}

stationInformationAddress == "station_information.json"

stationStatusAddress == "station_status.json"

Feeds == {"status", "information"}

\* The ids a request for one station may name: the upstream ids.
RequestIDs == {"627", "623"}

StationIDs == {"627", "623"}

\* Station names in ascending byte order, as Go's < on strings orders them.
NameOrder == <<"7 Juni Plassen", "Skoyen Stasjon">>

Names == {NameOrder[k] : k \in DOMAIN NameOrder}

BikeCounts == {4, 7}

DockCounts == {5}

LastUpdatedValues == {1553592653}

StatusCodes == {StatusOK, StatusInternalServerError}

SeqsUpTo(S, n) == UNION {[1..k -> S] : k \in 0..n}

\* Wire records of the two feeds (the fields the programs use).
InformationRecords == [station_id : StationIDs, name : Names]

StatusRecords ==
    [station_id : StationIDs, num_bikes_available : BikeCounts,
     num_docks_available : DockCounts]

EmptyBody == [kind |-> "empty", last_updated |-> 0, stations |-> <<>>]

GarbledBody == [kind |-> "garbled", last_updated |-> 0, stations |-> <<>>]

\* Response bodies: empty, not JSON, or a feed document listing stations.
Bodies(documents) ==
    {EmptyBody, GarbledBody} \cup
    [kind : {"json"}, last_updated : LastUpdatedValues, stations : documents]

\* What the HTTP round trip yields: an I/O error, or a status code and a body.
Responses(documents) ==
    {[ioError |-> TRUE, statusCode |-> 0, body |-> EmptyBody]} \cup
    [ioError : {FALSE}, statusCode : StatusCodes, body : Bodies(documents)]

RecordsOf(feed) == IF feed = "status" THEN StatusRecords ELSE InformationRecords

\* The station lists a feed can serve to a direct call: any records, in any
\* order, repeated ids included.
Documents(feed) == SeqsUpTo(RecordsOf(feed), MaxStations)

\* The stations in the order the upstream feeds list them, and their names.
StationOrder == <<"627", "623">>

StationName == [id \in StationIDs |-> IF id = "627" THEN NameOrder[2] ELSE NameOrder[1]]

\* The bikes count of every station but the first of StationOrder, whose
\* count varies from cycle to cycle.
StationBikes == CHOOSE n \in BikeCounts : \A m \in BikeCounts : m <= n

StationRank(id) == CHOOSE k \in DOMAIN StationOrder : StationOrder[k] = id

\* The station lists the feeds serve to the refresh loop: each station at
\* most once, in the upstream order, under its own name.
LoopDocuments(feed) ==
    {d \in SeqsUpTo(RecordsOf(feed), MaxStations) :
        /\ \A a, b \in DOMAIN d :
              a < b => StationRank(d[a].station_id) < StationRank(d[b].station_id)
        /\ feed = "information" =>
              \A a \in DOMAIN d : d[a].name = StationName[d[a].station_id]
        /\ feed = "status" =>
              \A a \in DOMAIN d :
                 d[a].station_id # StationOrder[1] => d[a].num_bikes_available = StationBikes}

AddressOf(feed) ==
    IF feed = "status" THEN stationStatusAddress ELSE stationInformationAddress

\* The feed an address belongs to.
FeedOf(url) == IF url = stationStatusAddress THEN "status" ELSE "information"

clientIdentifier == "test-test"

----------------------------------------------------------------------------
(* Go values *)

NoError == [kind |-> "nil", url |-> "", code |-> 0]

\* The error of client.Do / ioutil.ReadAll: it names the URL.
IOError(url) == [kind |-> "io", url |-> url, code |-> 0]

\* fmt.Errorf("Http GET to %s failed with status code %d", url, code)
StatusError(url, code) == [kind |-> "status", url |-> url, code |-> code]

\* json: "unexpected end of JSON input"
EOFError == [kind |-> "eof", url |-> "", code |-> 0]

\* json: "invalid character ..."
SyntaxError == [kind |-> "syntax", url |-> "", code |-> 0]

NilBody == [kind |-> "nil", last_updated |-> 0, stations |-> <<>>]

\* The zero value of gbfsStationInformation / gbfsStationStatus.
ZeroFeed == [LastUpdated |-> 0, Stations |-> <<>>]

NoValue == [Feed |-> ZeroFeed, Error |-> NoError, none |-> TRUE]

Result(feed, error) == [Feed |-> feed, Error |-> error, none |-> FALSE]

EmptyMap == [id \in {} |-> id]

MessageNone == ""

\* updateFrameTexts of main, before the first cycle.
MessageFetching == "henter data ..."

MessageFetchFailed == "Vi klarte ikke a hente data. Vent litt, sa prover vi igjen!"

MessageMissingStatus == "Vi mangler status for noen stasjoner. Vent litt, sa prover vi igjen!"

LogMissingStatus == "We are missing the status for some stations."

\* A Go map or slice value: nil, a reference to a map object of the heap
\* (ref > 0), or the elements themselves.
NilValue == [isnil |-> TRUE, ref |-> 0, elems |-> <<>>]

Value(elems) == [isnil |-> FALSE, ref |-> 0, elems |-> elems]

Reference(r) == [isnil |-> FALSE, ref |-> r, elems |-> <<>>]

LogFetching == "Fetching data from the BySykkel API."

LogFetchFailed == "Fetching data failed with the error"

\* The durations of go-cache and of the program that the cache is given.
NoExpiration == "cache.NoExpiration"

DefaultExpiration == "cache.DefaultExpiration"

\* cache.New(cache.NoExpiration, cacheCleanupInterval): the default
\* expiration of stationsCache.
defaultExpiration == NoExpiration

\* A faulty Expires: the default expiration is taken to be a finite time.
ExpiresByDefault(d, default) == d # NoExpiration

\* Whether an item Set with the duration d ever expires: DefaultExpiration
\* stands for the default of the cache, and NoExpiration never expires.
Expires(d, default) ==
    LET e == IF d = DefaultExpiration THEN default ELSE d
    IN  e # NoExpiration

\* The go-cache item under cacheKey: absent, or the object that was Set and
\* whether it expires.
NoItem == [found |-> FALSE, object |-> NilValue, expires |-> FALSE]

Item(object) ==
    [found |-> TRUE, object |-> object,
     expires |-> Expires(DefaultExpiration, defaultExpiration)]

\* stationsCache.Get(cacheKey): found, unless the item has expired; elapsed
\* says whether the time an expiring item lives has passed.
Get(item, elapsed) == item.found /\ ~(item.expires /\ elapsed)

\* The stations a map value holds: a nil map holds none.
Contents(h, object) == IF object.ref # 0 THEN h[object.ref] ELSE EmptyMap

\* The Published View as a value: whether an item is cached, whether its
\* map is nil, and the stations of the map.
View(item, h) ==
    [found |-> item.found, isnil |-> item.object.isnil,
     stations |-> Contents(h, item.object)]

\* The locals of a handler between two requests.
IdleReader ==
    [pc |-> "idle", handler |-> "", id |-> "", cachedStations |-> NilValue,
     todo |-> {}, stations |-> <<>>, seen |-> EmptyMap, code |-> 0, body |-> <<>>,
     at |-> 0]

\* Nothing has been Set yet.
NothingPublished == [cycle |-> 0, stations |-> EmptyMap]

\* The values returned by fetchData: "main" returns the two lookups and err,
\* "server" the stations and err, "terminal" the stations, a message and err.
Return(information, status, stations, message, error) ==
    [information |-> information, status |-> status, stations |-> stations,
     message |-> message, err |-> error, none |-> FALSE]

NoReturn ==
    [information |-> NilValue, status |-> NilValue, stations |-> NilValue,
     message |-> MessageNone, err |-> NoError, none |-> TRUE]

----------------------------------------------------------------------------
(* fetch *)

\* fetch(url): the programs "server" and "terminal" reject a status other
\* than 200; "main" and "sequential" read the body whatever the status.
\* bodyOpen says whether fetch returns with resp.Body not closed: "terminal"
\* defers the Close after the return of the status check, the others
\* before any return that follows client.Do.
fetch(v, url, resp) ==
    IF resp.ioError
    THEN [body |-> NilBody, err |-> IOError(url), bodyOpen |-> FALSE]
    ELSE IF v \in {"server", "terminal"} /\ resp.statusCode # StatusOK
    THEN [body |-> NilBody, err |-> StatusError(url, resp.statusCode),
          bodyOpen |-> (v = "terminal")]
    ELSE [body |-> resp.body, err |-> NoError, bodyOpen |-> FALSE]

\* http.NewRequest("GET", url, nil) and req.Header.Add of fetch.
NewRequest(url) ==
    [method |-> "GET", url |-> url, header |-> [Client_Identifier |-> clientIdentifier]]

\* A faulty fetchRequests: a request that fails is made a second time.
fetchRequestsRetried(v, url, resp) ==
    IF resp.ioError \/ resp.statusCode # StatusOK
    THEN <<NewRequest(url), NewRequest(url)>>
    ELSE <<NewRequest(url)>>

\* The requests fetch(url) hands to client.Do, whatever the response is.
fetchRequests(v, url, resp) == <<NewRequest(url)>>

----------------------------------------------------------------------------
(* json.Unmarshal into the feed structures *)

DecodeInformationStation(w) == [StationID |-> w.station_id, Name |-> w.name]

DecodeStatusStation(w) ==
    [StationID |-> w.station_id,
     NumberOfBikesAvailable |-> w.num_bikes_available,
     NumberOfDocksAvailable |-> w.num_docks_available]

DecodeStation(feed, w) ==
    IF feed = "status" THEN DecodeStatusStation(w) ELSE DecodeInformationStation(w)

\* json.Unmarshal(body, &feed): the error, and the feed as left by the call.
Unmarshal(feed, body) ==
    CASE body.kind = "empty" -> [feed |-> ZeroFeed, err |-> EOFError]
      [] body.kind = "json" ->
            [feed |-> [LastUpdated |-> body.last_updated,
                       Stations |-> [k \in DOMAIN body.stations |->
                                        DecodeStation(feed, body.stations[k])]],
             err |-> NoError]
      [] OTHER -> [feed |-> ZeroFeed, err |-> SyntaxError]

----------------------------------------------------------------------------
(* fetchStationInformation, fetchStationStatus *)

fetchStationInformation(v, resp) ==
    LET f == fetch(v, stationInformationAddress, resp)
        u == Unmarshal("information", f.body)
    IN  IF f.err # NoError THEN Result(ZeroFeed, f.err)
        ELSE IF v = "sequential" THEN Result(u.feed, u.err)
        ELSE IF u.err # NoError THEN Result(ZeroFeed, u.err)
        ELSE Result(u.feed, NoError)

\* The sequential program returns nil for the error on every path.
fetchStationStatus(v, resp) ==
    LET f == fetch(v, stationStatusAddress, resp)
        u == Unmarshal("status", f.body)
    IN  IF f.err # NoError
        THEN Result(ZeroFeed, IF v = "sequential" THEN NoError ELSE f.err)
        ELSE IF v = "sequential" THEN Result(u.feed, NoError)
        ELSE IF u.err # NoError THEN Result(ZeroFeed, u.err)
        ELSE Result(u.feed, NoError)

fetchStation(feed, v, resp) ==
    IF feed = "status" THEN fetchStationStatus(v, resp)
    ELSE fetchStationInformation(v, resp)

\* The requests of fetchStationStatus and of fetchStationInformation: those
\* of their one call of fetch.
fetchStationRequests(feed, v, resp) ==
    IF feed = "status" THEN fetchRequests(v, stationStatusAddress, resp)
    ELSE fetchRequests(v, stationInformationAddress, resp)

----------------------------------------------------------------------------
(* fetchData: the receive loop *)

\* A faulty Put: a key that is present keeps its value.
PutIfAbsent(m, k, v) == [x \in DOMAIN m \cup {k} |-> IF x \in DOMAIN m THEN m[x] ELSE v]

\* m[k] = v
Put(m, k, v) == [x \in DOMAIN m \cup {k} |-> IF x = k THEN v ELSE m[x]]

\* for _, station := range stations { m[station.StationID] = station }
RECURSIVE PutAll(_, _)
PutAll(m, stations) ==
    IF stations = <<>> THEN m
    ELSE PutAll(Put(m, Head(stations).StationID, Head(stations)), Tail(stations))

\* A faulty receiveErr: the first error is kept.
receiveErrFirst(e, result) ==
    IF result.Error # NoError /\ e = NoError THEN result.Error ELSE e

\* A faulty receiveErr: err is assigned on every path, so a later success
\* clears it.
receiveErrAssigned(e, result) == result.Error

\* err after a select case has handled result.
receiveErr(e, result) == IF result.Error # NoError THEN result.Error ELSE e

\* The lookup of a feed after a select case has handled result.
receiveMap(m, result) ==
    IF result.Error # NoError THEN m ELSE PutAll(m, result.Feed.Stations)

\* A faulty receiveNext: a result with an error is not counted.
receiveNextOnSuccess(n, result) == IF result.Error # NoError THEN n ELSE n + 1

\* A faulty receiveNext: an error ends the loop at once.
receiveNextShortCircuit(n, result) == IF result.Error # NoError THEN 2 ELSE n + 1

\* The loop counter after a select case has handled result.
receiveNext(n, result) == n + 1

\* make(chan ...), go fetchStation...(...), make(map ...), var err error
fetchDataBegin ==
    /\ fdpc' = "select"
    /\ i' = 0
    /\ gpc' = [f \in Feeds |-> "running"]
    /\ channel' = [f \in Feeds |-> NoValue]
    /\ closed' = [f \in Feeds |-> FALSE]
    /\ received' = <<>>
    /\ got' = [f \in Feeds |-> NoValue]
    /\ requests' = [f \in Feeds |-> <<>>]
    /\ informationMap' = EmptyMap
    /\ statusMap' = EmptyMap
    /\ err' = NoError
    /\ ret' = NoReturn

\* A faulty afterFetch: the error path returns without a send.
afterFetchSilentOnError(result) == IF result.Error # NoError THEN "done" ELSE "sending"

\* Where the goroutine of a feed is once it has its result: every path of
\* fetchStationStatus and fetchStationInformation ends in a send.
afterFetch(result) == "sending"

\* The goroutine of a feed: fetch, decode, and block in the send of the result.
GoFetchStation(feed) ==
    /\ gpc[feed] = "running"
    /\ \E resp \in Responses(IF upc = "none" THEN Documents(feed)
                                ELSE LoopDocuments(feed)) :
          LET result == fetchStation(feed, variant, resp)
          IN  /\ channel' = IF afterFetch(result) = "sending"
                            THEN [channel EXCEPT ![feed] = result] ELSE channel
              /\ gpc' = [gpc EXCEPT ![feed] = afterFetch(result)]
              /\ requests' = [requests EXCEPT
                                 ![feed] = @ \o fetchStationRequests(feed, variant, resp)]
    /\ UNCHANGED <<variant, call, fdpc, i, closed, received, got,
                   informationMap, statusMap, err, ret, logs, heap, serverVars>>

GoFetchStationStatus == GoFetchStation("status")

GoFetchStationInformation == GoFetchStation("information")

\* A select case of the receive loop: the rendezvous with the sender.
Select(feed) ==
    /\ fdpc = "select"
    /\ i < 2
    /\ gpc[feed] = "sending"
    /\ LET result == channel[feed]
       IN  /\ err' = receiveErr(err, result)
           /\ statusMap' =
                 IF feed = "status" THEN receiveMap(statusMap, result) ELSE statusMap
           /\ informationMap' =
                 IF feed = "information" THEN receiveMap(informationMap, result)
                 ELSE informationMap
           /\ i' = receiveNext(i, result)
           /\ got' = [got EXCEPT ![feed] = result]
    /\ received' = Append(received, feed)
    /\ channel' = [channel EXCEPT ![feed] = NoValue]
    /\ gpc' = [gpc EXCEPT ![feed] = "done"]
    /\ UNCHANGED <<variant, call, fdpc, closed, requests, ret, logs, heap, serverVars>>

SelectStatus == Select("status")

SelectInformation == Select("information")

----------------------------------------------------------------------------
(* fetchData: the join *)

\* A faulty NewReference: the map object the cache holds is cleared and
\* filled again.
NewReferenceReused(h) ==
    IF stationsCache.found /\ stationsCache.object.ref # 0
    THEN stationsCache.object.ref
    ELSE CHOOSE r \in 1..(Cardinality(DOMAIN h) + 1) : r \notin DOMAIN h

\* stations := make(map[string]stationData): a reference no live object has.
NewReference(h) == CHOOSE r \in 1..(Cardinality(DOMAIN h) + 1) : r \notin DOMAIN h

\* A faulty Store: the map that is cached is brought up to date as well.
StoreAlsoCached(h, r, m) ==
    [x \in DOMAIN h \cup {r} |->
        IF x = r \/ x = stationsCache.object.ref THEN m ELSE h[x]]

\* A faulty Store: the new map starts from the stations that are cached.
StoreMerged(h, r, m) ==
    LET old == Contents(h, stationsCache.object)
    IN  [x \in DOMAIN h \cup {r} |->
            IF x = r
            THEN [id \in DOMAIN old \cup DOMAIN m |->
                     IF id \in DOMAIN m THEN m[id] ELSE old[id]]
            ELSE h[x]]

\* The map object at r holds m from now on.
Store(h, r, m) == [x \in DOMAIN h \cup {r} |-> IF x = r THEN m ELSE h[x]]

\* A faulty ServerStationData: the two counts are exchanged.
ServerStationDataExchanged(stationID, information, status) ==
    [StationID |-> stationID,
     Name |-> information.Name,
     NumberOfDocksAvailable |-> status.NumberOfBikesAvailable,
     NumberOfBikesAvailable |-> status.NumberOfDocksAvailable]

\* stationData of "server".
ServerStationData(stationID, information, status) ==
    [StationID |-> stationID,
     Name |-> information.Name,
     NumberOfDocksAvailable |-> status.NumberOfDocksAvailable,
     NumberOfBikesAvailable |-> status.NumberOfBikesAvailable]

\* stationData of "terminal": it has no StationID.
TerminalStationData(information, status) ==
    [Name |-> information.Name,
     NumberOfDocksAvailable |-> status.NumberOfDocksAvailable,
     NumberOfBikesAvailable |-> status.NumberOfBikesAvailable]

\* A faulty MissingStatus: a status without metadata counts as missing too.
MissingStatusEitherWay(infoMap, statMap) == DOMAIN infoMap # DOMAIN statMap

\* Whether the loop over informationMap meets a station without status.
MissingStatus(infoMap, statMap) ==
    \E stationID \in DOMAIN infoMap : stationID \notin DOMAIN statMap

\* A faulty JoinServer: a station without status is emitted with zero counts.
JoinServerAll(infoMap, statMap) ==
    [stationID \in DOMAIN infoMap |->
        IF stationID \in DOMAIN statMap
        THEN ServerStationData(stationID, infoMap[stationID], statMap[stationID])
        ELSE ServerStationData(stationID, infoMap[stationID],
                               [NumberOfDocksAvailable |-> 0,
                                NumberOfBikesAvailable |-> 0])]

\* The map the join loop of "server" fills.
JoinServer(infoMap, statMap) ==
    [stationID \in {id \in DOMAIN infoMap : id \in DOMAIN statMap} |->
        ServerStationData(stationID, infoMap[stationID], statMap[stationID])]

\* A faulty JoinTerminal: the loop ends at the first station without status.
RECURSIVE JoinTerminalUntilMissing(_, _, _)
JoinTerminalUntilMissing(order, infoMap, statMap) ==
    IF order = <<>> \/ Head(order) \notin DOMAIN statMap THEN <<>>
    ELSE <<TerminalStationData(infoMap[Head(order)], statMap[Head(order)])>>
         \o JoinTerminalUntilMissing(Tail(order), infoMap, statMap)

\* The slice the join loop of "terminal" fills when the range over
\* informationMap visits the keys in the given order.
RECURSIVE JoinTerminal(_, _, _)
JoinTerminal(order, infoMap, statMap) ==
    IF order = <<>> THEN <<>>
    ELSE LET stationID == Head(order)
             rest == JoinTerminal(Tail(order), infoMap, statMap)
         IN  IF stationID \notin DOMAIN statMap THEN rest
             ELSE <<TerminalStationData(infoMap[stationID], statMap[stationID])>>
                  \o rest

\* The orders in which a range over a map with these keys can visit them.
RangeOrders(keys) ==
    {o \in [1..Cardinality(keys) -> keys] : \A k \in keys : \E n \in DOMAIN o : o[n] = k}

NameRank(name) == CHOOSE k \in DOMAIN NameOrder : NameOrder[k] = name

\* A faulty Less: the comparison is the other way round.
LessDescending(a, b) == NameRank(a.Name) > NameRank(b.Name)

\* less of sort.Slice: stations[i].Name < stations[j].Name
Less(a, b) == NameRank(a.Name) < NameRank(b.Name)

\* One pass of the insertion sort sort.Slice uses for short slices: x moves
\* left while it is less than its left neighbour.
RECURSIVE Insert(_, _)
Insert(sorted, x) ==
    IF sorted = <<>> THEN <<x>>
    ELSE LET last == sorted[Len(sorted)]
         IN  IF Less(x, last)
             THEN Append(Insert(SubSeq(sorted, 1, Len(sorted) - 1), x), last)
             ELSE Append(sorted, x)

RECURSIVE SortByName(_)
SortByName(stations) ==
    IF stations = <<>> THEN <<>>
    ELSE Insert(SortByName(SubSeq(stations, 1, Len(stations) - 1)),
                stations[Len(stations)])

\* if err != nil { return nil, ..., err }
FailedReturn(v, infoMap, statMap, e) ==
    CASE v = "main" ->
            Return(Value(infoMap), Value(statMap), NilValue, MessageNone, e)
      [] v = "server" -> Return(NilValue, NilValue, NilValue, MessageNone, e)
      [] OTHER -> Return(NilValue, NilValue, NilValue, MessageFetchFailed, e)

\* The code after the receive loop, the deferred close calls included.
ReturnFetchData ==
    /\ fdpc = "select"
    /\ ~(i < 2)
    /\ fdpc' = "returned"
    /\ closed' = [f \in Feeds |-> TRUE]
    /\ IF variant = "main" \/ err # NoError
       THEN /\ ret' = FailedReturn(variant, informationMap, statusMap, err)
            /\ UNCHANGED <<logs, heap>>
       ELSE IF variant = "server"
       THEN LET r == NewReference(heap)
            IN  /\ heap' = Store(heap, r, JoinServer(informationMap, statusMap))
                /\ ret' = Return(NilValue, NilValue, Reference(r), MessageNone, err)
                /\ logs' = IF MissingStatus(informationMap, statusMap)
                           THEN logs \cup {LogMissingStatus} ELSE logs
       ELSE /\ \E order \in RangeOrders(DOMAIN informationMap) :
                  ret' = Return(NilValue, NilValue,
                                Value(SortByName(JoinTerminal(order, informationMap,
                                                              statusMap))),
                                IF MissingStatus(informationMap, statusMap)
                                THEN MessageMissingStatus ELSE MessageNone,
                                err)
            /\ UNCHANGED <<logs, heap>>
    /\ UNCHANGED <<variant, call, i, gpc, channel, received, got, requests,
                   informationMap, statusMap, err, serverVars>>

----------------------------------------------------------------------------
(* Spec: one call of fetchData in each concurrent program *)

NoCall == [fn |-> "none", variant |-> "", url |-> "", resp |-> <<>>, out |-> <<>>]

Init ==
    /\ variant \in ConcurrentVariants
    /\ call = NoCall
    /\ fdpc = "idle"
    /\ i = 0
    /\ gpc = [f \in Feeds |-> "none"]
    /\ channel = [f \in Feeds |-> NoValue]
    /\ closed = [f \in Feeds |-> FALSE]
    /\ received = <<>>
    /\ got = [f \in Feeds |-> NoValue]
    /\ requests = [f \in Feeds |-> <<>>]
    /\ informationMap = EmptyMap
    /\ statusMap = EmptyMap
    /\ err = NoError
    /\ ret = NoReturn
    /\ logs = {}
    /\ heap = EmptyMap
    /\ upc = "none"
    /\ cycle = 0
    /\ stationsCache = NoItem
    /\ viewBefore = View(NoItem, EmptyMap)
    /\ published = NothingPublished
    /\ handled = 0
    /\ readers = [r \in Readers |-> IdleReader]
    /\ table = <<>>
    /\ frameMessage = MessageFetching

CallFetchData ==
    /\ fdpc = "idle"
    /\ upc = "none"
    /\ fetchDataBegin
    /\ UNCHANGED <<variant, call, logs, heap, serverVars>>

Next ==
    \/ CallFetchData
    \/ GoFetchStationStatus
    \/ GoFetchStationInformation
    \/ SelectStatus
    \/ SelectInformation
    \/ ReturnFetchData

Spec == Init /\ [][Next]_vars

\* The scheduler runs every goroutine that can run: each fetch returns (the
\* client has a timeout), a blocked send is received, fetchData goes on.
\* Whether fetchData is called at all is up to the caller.
FairFetchData ==
    /\ WF_vars(GoFetchStationStatus)
    /\ WF_vars(GoFetchStationInformation)
    /\ WF_vars(SelectStatus)
    /\ WF_vars(SelectInformation)
    /\ WF_vars(ReturnFetchData)

SpecFair == Init /\ [][Next]_vars /\ FairFetchData

----------------------------------------------------------------------------
(* SpecFetch: direct calls of fetch, fetchStationInformation and            *)
(* fetchStationStatus of every program, as the unit tests make them         *)

AllResponses == Responses(Documents("information")) \cup Responses(Documents("status"))

InitFetch ==
    /\ variant \in Variants
    /\ call = NoCall
    /\ fdpc = "idle"
    /\ i = 0
    /\ gpc = [f \in Feeds |-> "none"]
    /\ channel = [f \in Feeds |-> NoValue]
    /\ closed = [f \in Feeds |-> FALSE]
    /\ received = <<>>
    /\ got = [f \in Feeds |-> NoValue]
    /\ requests = [f \in Feeds |-> <<>>]
    /\ informationMap = EmptyMap
    /\ statusMap = EmptyMap
    /\ err = NoError
    /\ ret = NoReturn
    /\ logs = {}
    /\ heap = EmptyMap
    /\ upc = "none"
    /\ cycle = 0
    /\ stationsCache = NoItem
    /\ viewBefore = View(NoItem, EmptyMap)
    /\ published = NothingPublished
    /\ handled = 0
    /\ readers = [r \in Readers |-> IdleReader]
    /\ table = <<>>
    /\ frameMessage = MessageFetching

Called(fn, url, resp, out) ==
    /\ call = NoCall
    /\ call' = [fn |-> fn, variant |-> variant, url |-> url, resp |-> resp, out |-> out]
    /\ requests' = [requests EXCEPT ![FeedOf(url)] = fetchRequests(variant, url, resp)]
    /\ UNCHANGED <<variant, fdpc, i, gpc, channel, closed, received, got,
                   informationMap, statusMap, err, ret, logs, heap, serverVars>>

CallFetch ==
    \E url \in {stationInformationAddress, stationStatusAddress}, resp \in AllResponses :
        Called("fetch", url, resp, fetch(variant, url, resp))

CallFetchStationInformation ==
    \E resp \in Responses(Documents("information")) :
        Called("fetchStationInformation", stationInformationAddress, resp,
               fetchStationInformation(variant, resp))

CallFetchStationStatus ==
    \E resp \in Responses(Documents("status")) :
        Called("fetchStationStatus", stationStatusAddress, resp,
               fetchStationStatus(variant, resp))

NextFetch ==
    \/ CallFetch
    \/ CallFetchStationInformation
    \/ CallFetchStationStatus

SpecFetch == InitFetch /\ [][NextFetch]_vars

----------------------------------------------------------------------------
(* SpecServer: the refresh loop of "server", its cache and its handlers *)

\* The references some variable still holds.
LiveReferences(item, rs, r) ==
    ({item.object.ref} \cup {rs[x].cachedStations.ref : x \in Readers}
        \cup {r.stations.ref}) \ {0}

\* The heap without the map objects nothing refers to any more.
Collect(h, live) == [x \in DOMAIN h \cap live |-> h[x]]

\* A faulty cacheAfter: a failed cycle deletes the item.
cacheAfterCleared(item, r) == IF r.err # NoError THEN NoItem ELSE Item(r.stations)

\* A faulty cacheAfter: Add in place of Set, which keeps an item that exists.
cacheAfterAdd(item, r) == IF r.err # NoError \/ item.found THEN item ELSE Item(r.stations)

\* A faulty cacheAfter: a Snapshot without stations is not Set.
cacheAfterNonEmpty(item, r) ==
    IF r.err # NoError \/ Contents(heap, r.stations) = EmptyMap THEN item ELSE Item(r.stations)

\* A faulty cacheAfter: what fetchData returned is Set also when it failed.
cacheAfterAlwaysSet(item, r) == Item(r.stations)

\* The item under cacheKey after updateStationsCache has handled what
\* fetchData returned: stationsCache.Set on success, nothing on failure.
cacheAfter(item, r) == IF r.err # NoError THEN item ELSE Item(r.stations)

InitServer ==
    /\ variant = "server"
    /\ call = NoCall
    /\ fdpc = "idle"
    /\ i = 0
    /\ gpc = [f \in Feeds |-> "none"]
    /\ channel = [f \in Feeds |-> NoValue]
    /\ closed = [f \in Feeds |-> FALSE]
    /\ received = <<>>
    /\ got = [f \in Feeds |-> NoValue]
    /\ requests = [f \in Feeds |-> <<>>]
    /\ informationMap = EmptyMap
    /\ statusMap = EmptyMap
    /\ err = NoError
    /\ ret = NoReturn
    /\ logs = {}
    /\ heap = EmptyMap
    /\ upc = "start"
    /\ cycle = 0
    /\ stationsCache = NoItem
    /\ viewBefore = View(NoItem, EmptyMap)
    /\ published = NothingPublished
    /\ handled = 0
    /\ readers = [r \in Readers |-> IdleReader]
    /\ table = <<>>
    /\ frameMessage = MessageFetching

\* A faulty mayFetch: the loop ends when a cycle has failed.
mayFetchUnlessFailed(pc) == pc = "start" \/ (pc = "sleep" /\ LogFetchFailed \notin logs)

\* A faulty mayFetch: a tick starts the next call whatever the loop is doing.
mayFetchAnytime(pc) == pc \in {"start", "fetching", "sleep"}

\* The loop calls fetchData at the head of its body only: at process start,
\* or when time.Sleep(updateInterval) of the previous iteration has elapsed.
mayFetch(pc) == pc \in {"start", "sleep"}

\* The head of the loop body: the log line and the call of fetchData.
updateStationsCacheFetch ==
    /\ mayFetch(upc)
    /\ cycle < MaxCycles
    /\ upc' = "fetching"
    /\ cycle' = cycle + 1
    /\ logs' = {LogFetching}
    /\ viewBefore' = View(stationsCache, heap)
    /\ fetchDataBegin
    /\ UNCHANGED <<variant, call, heap, stationsCache, published, handled, readers,
                   table, frameMessage>>

\* The rest of the loop body, once fetchData has returned: the log line or
\* the Set, then the sleep.  The frame of fetchData is gone.
updateStationsCacheStore ==
    /\ upc = "fetching"
    /\ fdpc = "returned"
    /\ stationsCache' = cacheAfter(stationsCache, ret)
    /\ logs' = IF ret.err # NoError THEN logs \cup {LogFetchFailed} ELSE logs
    /\ published' = IF ret.err # NoError THEN published
                    ELSE [cycle |-> cycle, stations |-> Contents(heap, ret.stations)]
    /\ handled' = handled + 1
    /\ upc' = "sleep"
    /\ heap' = Collect(heap, LiveReferences(stationsCache', readers, NoReturn))
    /\ fdpc' = "idle"
    /\ i' = 0
    /\ gpc' = [f \in Feeds |-> "none"]
    /\ channel' = [f \in Feeds |-> NoValue]
    /\ closed' = [f \in Feeds |-> FALSE]
    /\ received' = <<>>
    /\ got' = [f \in Feeds |-> NoValue]
    /\ requests' = [f \in Feeds |-> <<>>]
    /\ informationMap' = EmptyMap
    /\ statusMap' = EmptyMap
    /\ err' = NoError
    /\ ret' = NoReturn
    /\ UNCHANGED <<variant, call, cycle, viewBefore, readers, table, frameMessage>>

\* A faulty lockedByLoop: the loop keeps the cache locked while it fetches.
lockedByLoopWhileFetching(pc) == pc = "fetching"

\* Whether the refresh loop holds the lock of the cache at a position of its
\* body: Set locks and unlocks within the call, so it holds it at none.
lockedByLoop(pc) == FALSE

\* When a handler was entered: the cycle last published, 0 when none was.
Now == published.cycle

\* A handler that has responded with a status code and nothing else.
Responded(handler, id, code) ==
    [IdleReader EXCEPT !.pc = "responded", !.handler = handler, !.id = id,
                       !.code = code, !.at = Now]

\* Root: 200 and a line of text; the cache is not read.
Root(r) ==
    /\ readers[r].pc \in {"idle", "responded"}
    /\ readers' = [readers EXCEPT ![r] = Responded("Root", "", StatusOK)]
    /\ UNCHANGED <<variant, call, fdpc, i, gpc, channel, closed, received, got,
                   requests, informationMap, statusMap, err, ret, logs, heap,
                   loopVars>>

\* AllStations up to the range loop: stationsCache.Get, and the 500 when
\* nothing is cached.
AllStationsGet(r) ==
    /\ readers[r].pc \in {"idle", "responded"}
    /\ ~lockedByLoop(upc)
    /\ \E elapsed \in BOOLEAN :
          readers' = [readers EXCEPT ![r] =
             IF Get(stationsCache, elapsed)
             THEN [IdleReader EXCEPT
                      !.pc = "range", !.handler = "AllStations",
                      !.cachedStations = stationsCache.object,
                      !.todo = DOMAIN Contents(heap, stationsCache.object),
                      !.seen = Contents(heap, stationsCache.object),
                      !.at = Now]
             ELSE Responded("AllStations", "", StatusInternalServerError)]
    /\ UNCHANGED <<variant, call, fdpc, i, gpc, channel, closed, received, got,
                   requests, informationMap, statusMap, err, ret, logs, heap,
                   loopVars>>

\* One iteration of the range over cachedStations: a key not yet visited,
\* if the map still holds it, appends its station.
AllStationsRange(r) ==
    /\ readers[r].pc = "range"
    /\ \E stationID \in readers[r].todo :
          LET m == Contents(heap, readers[r].cachedStations)
          IN  readers' = [readers EXCEPT
                 ![r].todo = @ \ {stationID},
                 ![r].stations = IF stationID \in DOMAIN m
                                 THEN Append(@, m[stationID]) ELSE @]
    /\ UNCHANGED <<variant, call, fdpc, i, gpc, channel, closed, received, got,
                   requests, informationMap, statusMap, err, ret, logs, heap,
                   loopVars>>

\* The end of AllStations: 200 and the encoded slice.
AllStationsRespond(r) ==
    /\ readers[r].pc = "range"
    /\ readers[r].todo = {}
    /\ readers' = [readers EXCEPT
          ![r].pc = "responded",
          ![r].cachedStations = NilValue,
          ![r].code = StatusOK,
          ![r].body = readers[r].stations,
          ![r].stations = <<>>]
    /\ heap' = Collect(heap, LiveReferences(stationsCache, readers', ret))
    /\ UNCHANGED <<variant, call, fdpc, i, gpc, channel, closed, received, got,
                   requests, informationMap, statusMap, err, ret, logs,
                   loopVars>>

\* A faulty hasStation: the second value of the map index is not looked at.
hasStationAlways(m, stationID) == TRUE

\* station, ok := cachedStations[stationID]: ok.
hasStation(m, stationID) == stationID \in DOMAIN m

\* station, ok := cachedStations[stationID]: station, the zero value when
\* the map has no such key.
ZeroStationData ==
    [StationID |-> "", Name |-> "", NumberOfDocksAvailable |-> 0,
     NumberOfBikesAvailable |-> 0]

stationOf(m, stationID) == IF stationID \in DOMAIN m THEN m[stationID] ELSE ZeroStationData

\* SingleStation for the id of the request path: stationsCache.Get and the
\* 500 when nothing is cached, else the lookup and the 200 with the station,
\* or the 404.
SingleStation(r, stationID) ==
    /\ readers[r].pc \in {"idle", "responded"}
    /\ ~lockedByLoop(upc)
    /\ \E elapsed \in BOOLEAN :
          LET cachedStations == Contents(heap, stationsCache.object)
          IN  readers' = [readers EXCEPT ![r] =
                 IF ~Get(stationsCache, elapsed)
                 THEN Responded("SingleStation", stationID, StatusInternalServerError)
                 ELSE IF hasStation(cachedStations, stationID)
                 THEN [Responded("SingleStation", stationID, StatusOK) EXCEPT
                          !.seen = cachedStations,
                          !.body = <<stationOf(cachedStations, stationID)>>]
                 ELSE [Responded("SingleStation", stationID, StatusNotFound) EXCEPT
                          !.seen = cachedStations]]
    /\ UNCHANGED <<variant, call, fdpc, i, gpc, channel, closed, received, got,
                   requests, informationMap, statusMap, err, ret, logs, heap,
                   loopVars>>

NextServer ==
    \/ updateStationsCacheFetch
    \/ GoFetchStationStatus
    \/ GoFetchStationInformation
    \/ SelectStatus
    \/ SelectInformation
    \/ ReturnFetchData
    \/ updateStationsCacheStore
    \/ \E r \in Readers : Root(r)
    \/ \E r \in Readers : AllStationsGet(r)
    \/ \E r \in Readers : AllStationsRange(r)
    \/ \E r \in Readers : AllStationsRespond(r)
    \/ \E r \in Readers, stationID \in RequestIDs : SingleStation(r, stationID)

SpecServer == InitServer /\ [][NextServer]_vars

\* The scheduler runs every goroutine that can run: the loop takes its next
\* step, a fetch returns (the client has a timeout), a blocked send is
\* received.  The requests of the handlers arrive or not.
FairLoop ==
    /\ WF_vars(updateStationsCacheFetch)
    /\ WF_vars(GoFetchStationStatus)
    /\ WF_vars(GoFetchStationInformation)
    /\ WF_vars(SelectStatus)
    /\ WF_vars(SelectInformation)
    /\ WF_vars(ReturnFetchData)
    /\ WF_vars(updateStationsCacheStore)

\* The refresh loop by itself, when no request arrives.
NextLoop ==
    \/ updateStationsCacheFetch
    \/ GoFetchStationStatus
    \/ GoFetchStationInformation
    \/ SelectStatus
    \/ SelectInformation
    \/ ReturnFetchData
    \/ updateStationsCacheStore

SpecLoopFair == InitServer /\ [][NextLoop]_vars /\ FairLoop

----------------------------------------------------------------------------
(* SpecTerminal: the loop of "terminal" that draws the table *)

\* The header row that updateTable sets after table.Clear().
HeaderRow == <<" Stasjon ", " Tilgjengelige laser ", " Ledige sykler ">>

\* The three cells updateTable sets for a station: the name in column 0,
\* the text of bikes in column 1, the text of docks in column 2.
StationRow(station) ==
    LET bikes == ToString(station.NumberOfBikesAvailable)
        docks == ToString(station.NumberOfDocksAvailable)
    IN  <<station.Name, bikes, docks>>

\* A faulty tableAfter: the table is not cleared, so the rows below the new
\* list stay.
tableAfterNoClear(rows, r) ==
    IF r.err # NoError THEN rows
    ELSE LET drawn == <<HeaderRow>> \o [k \in DOMAIN r.stations.elems |->
                                          StationRow(r.stations.elems[k])]
         IN  drawn \o SubSeq(rows, Len(drawn) + 1, Len(rows))

\* The rows of the table after the function queued by updateTable has run:
\* cleared and drawn again when err is nil, left alone otherwise.
tableAfter(rows, r) ==
    IF r.err # NoError THEN rows
    ELSE <<HeaderRow>> \o [k \in DOMAIN r.stations.elems |->
                              StationRow(r.stations.elems[k])]

\* updateFrameTexts(message): the message line of the frame.
frameAfter(r) == r.message

InitTerminal ==
    /\ variant = "terminal"
    /\ call = NoCall
    /\ fdpc = "idle"
    /\ i = 0
    /\ gpc = [f \in Feeds |-> "none"]
    /\ channel = [f \in Feeds |-> NoValue]
    /\ closed = [f \in Feeds |-> FALSE]
    /\ received = <<>>
    /\ got = [f \in Feeds |-> NoValue]
    /\ requests = [f \in Feeds |-> <<>>]
    /\ informationMap = EmptyMap
    /\ statusMap = EmptyMap
    /\ err = NoError
    /\ ret = NoReturn
    /\ logs = {}
    /\ heap = EmptyMap
    /\ upc = "start"
    /\ cycle = 0
    /\ stationsCache = NoItem
    /\ viewBefore = [table |-> <<>>, message |-> MessageFetching]
    /\ published = NothingPublished
    /\ handled = 0
    /\ readers = [r \in Readers |-> IdleReader]
    /\ table = <<>>
    /\ frameMessage = MessageFetching

\* The head of the loop body: the call of fetchData, at the start of the
\* goroutine or when time.Sleep(updateInterval) has elapsed.
updateTableFetch ==
    /\ upc \in {"start", "sleep"}
    /\ cycle < MaxCycles
    /\ upc' = "fetching"
    /\ cycle' = cycle + 1
    /\ viewBefore' = [table |-> table, message |-> frameMessage]
    /\ fetchDataBegin
    /\ UNCHANGED <<variant, call, logs, heap, stationsCache, published, handled,
                   readers, table, frameMessage>>

\* The rest of the loop body, once fetchData has returned: the function
\* handed to app.QueueUpdateDraw, then the sleep.  ret keeps what the call
\* returned until the next call.
updateTableDraw ==
    /\ upc = "fetching"
    /\ fdpc = "returned"
    /\ table' = tableAfter(table, ret)
    /\ frameMessage' = frameAfter(ret)
    /\ handled' = handled + 1
    /\ upc' = "sleep"
    /\ UNCHANGED <<variant, call, fdpc, i, gpc, channel, closed, received, got,
                   requests, informationMap, statusMap, err, ret, logs, heap,
                   cycle, stationsCache, viewBefore, published, readers>>

NextTerminal ==
    \/ updateTableFetch
    \/ GoFetchStationStatus
    \/ GoFetchStationInformation
    \/ SelectStatus
    \/ SelectInformation
    \/ ReturnFetchData
    \/ updateTableDraw

SpecTerminal == InitTerminal /\ [][NextTerminal]_vars

----------------------------------------------------------------------------
(* Properties of one call of fetchData (Spec) *)

Returned == fdpc = "returned"

Failed(feed) == ~got[feed].none /\ got[feed].Error # NoError

Succeeded(feed) == ~got[feed].none /\ got[feed].Error = NoError

\* The station ids of a decoded feed.
IdsOf(stations) == {stations[k].StationID : k \in DOMAIN stations}

MetadataIds == IdsOf(got["information"].Feed.Stations)

StatusIds == IdsOf(got["status"].Feed.Stations)

\* The stations fetchData returned: the contents of the map or slice.
ReturnedStations == IF ret.stations.ref # 0 THEN heap[ret.stations.ref] ELSE ret.stations.elems

\* C1: in every concurrent program, when at least one feed fails, fetchData
\* returns a non-nil error and no station data at all (nil, never a partly
\* filled collection), whichever feed fails and in whichever order the two
\* results arrive.
C1_FailureYieldsNoData ==
    (Returned /\ (Failed("status") \/ Failed("information")))
        => /\ ret.err # NoError
           /\ ret.stations.isnil
           /\ ret.information.isnil
           /\ ret.status.isnil

\* C2: when both feeds decode, the station ids of the Snapshot are exactly
\* the ids present in both the metadata feed and the status feed: "server"
\* returns a map with exactly these keys, "terminal" one row for each of them.
C2_SnapshotIsIntersection ==
    (Returned /\ variant \in JoiningVariants
        /\ Succeeded("status") /\ Succeeded("information"))
        => /\ ~ret.stations.isnil
           /\ variant = "server" =>
                 /\ DOMAIN ReturnedStations = MetadataIds \cap StatusIds
                 /\ \A id \in DOMAIN ReturnedStations :
                       ReturnedStations[id].StationID = id
           /\ variant = "terminal" =>
                 /\ Len(ReturnedStations) = Cardinality(MetadataIds \cap StatusIds)
                 /\ \A k \in DOMAIN ReturnedStations :
                       \E id \in MetadataIds \cap StatusIds :
                          ReturnedStations[k].Name = informationMap[id].Name

C2_Witness ==
    /\ Returned /\ variant = "server"
    /\ Succeeded("status") /\ Succeeded("information")
    /\ MetadataIds = {"627", "623"}
    /\ StatusIds = {"627"}
    /\ DOMAIN ReturnedStations = {"627"}

\* C5: fetchData is past its receive loop only after it has received the
\* result of both the status fetch and the information fetch, also when the
\* first result received is an error.
C5_BothReceivedBeforeReturn ==
    Returned
        => /\ Len(received) = 2
           /\ {received[k] : k \in DOMAIN received} = Feeds
           /\ \A f \in Feeds : ~got[f].none /\ gpc[f] = "done"

C5_Witness ==
    /\ Returned
    /\ Len(received) = 2
    /\ got[received[1]].Error # NoError
    /\ ~got[received[2]].none

\* The errors the receive loop observed, in the order it observed them.
ObservedErrors ==
    SelectSeq([k \in DOMAIN received |-> got[received[k]].Error],
              LAMBDA e : e # NoError)

LoopOutcome(order) ==
    LET first == got[order[1]]
        second == got[order[2]]
        MapOf(feed) ==
            IF order[1] = feed THEN receiveMap(EmptyMap, first)
            ELSE receiveMap(EmptyMap, second)
    IN  [informationMap |-> MapOf("information"),
         statusMap |-> MapOf("status"),
         err |-> receiveErr(receiveErr(NoError, first), second)]

OtherOrder == <<received[2], received[1]>>

BothFailDifferently ==
    /\ Failed("status") /\ Failed("information")
    /\ got["status"].Error # got["information"].Error

\* C7 as stated: for fixed outcomes of the two feeds, fetchData returns the
\* same station data and the same error value whichever channel delivers
\* first.
C7_SameReturnInEitherOrder ==
    Returned
        => /\ informationMap = LoopOutcome(OtherOrder).informationMap
           /\ statusMap = LoopOutcome(OtherOrder).statusMap
           /\ ret.err = LoopOutcome(OtherOrder).err

\* C7 as amended: for fixed outcomes of the two feeds, the station data and
\* whether an error is returned are the same whichever channel delivers
\* first, and so is the error value unless both feeds fail with different
\* errors; then the error returned is that of the result received second.
C7_SameReturnUpToErrorValue ==
    Returned
        => /\ informationMap = LoopOutcome(OtherOrder).informationMap
           /\ statusMap = LoopOutcome(OtherOrder).statusMap
           /\ (ret.err = NoError) = (LoopOutcome(OtherOrder).err = NoError)
           /\ ret.stations.isnil =
                 (variant = "main" \/ LoopOutcome(OtherOrder).err # NoError)
           /\ IF BothFailDifferently
              THEN ret.err = got[received[2]].Error
              ELSE ret.err = LoopOutcome(OtherOrder).err

C7_Witness ==
    /\ Returned
    /\ BothFailDifferently
    /\ received = <<"status", "information">>
    /\ ret.err = got["information"].Error

\* The degraded-completeness signal: the message of "terminal", the warning
\* log line of "server".
SignalRaised ==
    IF variant = "terminal" THEN ret.message # MessageNone
    ELSE LogMissingStatus \in logs

\* C8: on a successful join the degraded-completeness signal is raised if
\* and only if some metadata station id has no entry in the status feed;
\* when it is not raised the message of "terminal" is empty.
C8_SignalIffMetadataWithoutStatus ==
    (Returned /\ variant \in JoiningVariants
        /\ Succeeded("status") /\ Succeeded("information"))
        => /\ SignalRaised = (\E id \in MetadataIds : id \notin StatusIds)
           /\ variant = "terminal" =>
                 ret.message \in {MessageNone, MessageMissingStatus}

C8_Witness ==
    /\ Returned /\ variant = "terminal"
    /\ Succeeded("status") /\ Succeeded("information")
    /\ MetadataIds = {"627"}
    /\ StatusIds = {"627", "623"}
    /\ ret.message = MessageNone

----------------------------------------------------------------------------
(* Properties of the fetch functions (SpecFetch) *)

UpstreamFailed(resp) == resp.ioError \/ resp.statusCode # StatusOK

\* C9: in every program, fetchStationStatus and fetchStationInformation
\* report a non-nil error together with a zero-valued feed whenever the
\* upstream call fails (I/O error or a status other than 200) or the body is
\* empty or malformed.
C9_FeedFailureIsReported ==
    (call.fn \in {"fetchStationStatus", "fetchStationInformation"}
        /\ (UpstreamFailed(call.resp) \/ call.resp.body.kind # "json"))
        => /\ call.out.Error # NoError
           /\ call.out.Feed = ZeroFeed

\* C10: in every program, fetch returns the body unchanged with a nil error
\* when the status is 200, whatever the body is, and a nil body with a
\* non-nil error for any other status.
C10_FetchChecksStatus ==
    (call.fn = "fetch" /\ ~call.resp.ioError)
        => IF call.resp.statusCode = StatusOK
           THEN call.out.body = call.resp.body /\ call.out.err = NoError
           ELSE call.out.body = NilBody /\ call.out.err # NoError

----------------------------------------------------------------------------
(* Properties of the refresh loop and the handlers (SpecServer) *)

PublishedView == View(stationsCache, heap)

CycleFailed == upc = "sleep" /\ LogFetchFailed \in logs

\* C3: when the fetchData of a refresh cycle fails, updateStationsCache
\* leaves the Published View as it was before the cycle: a published
\* Snapshot is neither cleared nor altered, and an empty view stays empty.
C3_FailedCycleKeepsView == CycleFailed => PublishedView = viewBefore

C3_Witness ==
    /\ CycleFailed
    /\ viewBefore.found
    /\ DOMAIN viewBefore.stations = StationIDs
    /\ PublishedView = viewBefore

ValuesOf(f) == {f[k] : k \in DOMAIN f}

\* C4: with the refresh loop writing while handlers read, a handler only
\* ever sees the complete Snapshot it got from the cache: the map it ranges
\* over stays as it was when it was read from the cache, the stations
\* collected so far are stations of that Snapshot, and the response lists
\* exactly the stations of that Snapshot.
C4_NoTornRead ==
    \A r \in Readers :
        /\ readers[r].pc = "range" =>
              /\ Contents(heap, readers[r].cachedStations) = readers[r].seen
              /\ ValuesOf(readers[r].stations) \subseteq ValuesOf(readers[r].seen)
        /\ (readers[r].pc = "responded" /\ readers[r].handler = "AllStations"
                /\ readers[r].code = StatusOK) =>
              /\ ValuesOf(readers[r].body) = ValuesOf(readers[r].seen)
              /\ Len(readers[r].body) = Cardinality(DOMAIN readers[r].seen)

\* A handler half way through a Snapshot of two stations that the refresh
\* loop has replaced in the meantime.
C4_Witness ==
    \E r \in Readers :
        /\ readers[r].pc = "range"
        /\ Len(readers[r].stations) = 1
        /\ Cardinality(readers[r].todo) = 1
        /\ stationsCache.object # readers[r].cachedStations
        /\ PublishedView.stations # readers[r].seen

----------------------------------------------------------------------------
(* Properties of the handlers (SpecServer) *)

\* The requests a handler has answered.
Answered(handler) ==
    {r \in Readers : readers[r].pc = "responded" /\ readers[r].handler = handler}

\* C11: AllStations responds 500 with no list exactly when no refresh cycle
\* had succeeded when it read the cache, and otherwise responds 200 with the
\* stations of the Snapshot, an empty list when the Snapshot has none.
C11_AllStationsStatus ==
    \A r \in Answered("AllStations") :
        /\ readers[r].code \in {StatusOK, StatusInternalServerError}
        /\ readers[r].code = StatusInternalServerError <=> readers[r].at = 0
        /\ readers[r].code = StatusInternalServerError => readers[r].body = <<>>
        /\ readers[r].code = StatusOK =>
              Len(readers[r].body) = Cardinality(DOMAIN readers[r].seen)

\* AllStations has answered 200 with an empty list, from a Snapshot without
\* stations that a successful cycle published.
C11_Witness ==
    \E r \in Answered("AllStations") :
        /\ readers[r].code = StatusOK
        /\ readers[r].body = <<>>
        /\ readers[r].at > 0
        /\ PublishedView.found
        /\ PublishedView.stations = EmptyMap

\* C12: SingleStation answers 200 with the station exactly when the id of
\* the request is a key of the Snapshot it read, 404 exactly when a Snapshot
\* was published and has no such key, and 500 exactly when no Snapshot had
\* been published; it answers nothing else.
C12_SingleStationStatus ==
    \A r \in Answered("SingleStation") :
        LET q == readers[r]
        IN  /\ q.code \in {StatusOK, StatusNotFound, StatusInternalServerError}
            /\ q.code = StatusInternalServerError <=> q.at = 0
            /\ q.code = StatusOK <=> (q.at > 0 /\ q.id \in DOMAIN q.seen)
            /\ q.code = StatusNotFound <=> (q.at > 0 /\ q.id \notin DOMAIN q.seen)
            /\ q.code = StatusOK => (q.body = <<q.seen[q.id]>> /\ q.seen[q.id].StationID = q.id)
            /\ q.code # StatusOK => q.body = <<>>

\* SingleStation has answered 404 for an id that the published Snapshot,
\* which holds another station, does not have.
C12_Witness ==
    \E r \in Answered("SingleStation") :
        /\ readers[r].code = StatusNotFound
        /\ readers[r].at > 0
        /\ readers[r].seen # EmptyMap
        /\ readers[r].id \notin DOMAIN readers[r].seen

----------------------------------------------------------------------------
(* Properties of the refresh loop (SpecServer) *)

CycleSucceeded == upc = "sleep" /\ LogFetchFailed \notin logs

\* C13: after a successful refresh cycle the Published View holds exactly
\* the Snapshot that the fetchData of this cycle returned: the stations of
\* the previous Snapshot that the new one lacks are gone, and nothing of the
\* old Snapshot is merged into the new one.
C13_SuccessfulCycleReplacesView ==
    CycleSucceeded =>
        /\ published.cycle = cycle
        /\ PublishedView.found
        /\ ~PublishedView.isnil
        /\ PublishedView.stations = published.stations

\* A successful cycle has replaced a Snapshot of two stations by a Snapshot
\* that has one of them only.
C13_Witness ==
    /\ CycleSucceeded
    /\ viewBefore.found
    /\ DOMAIN viewBefore.stations = StationIDs
    /\ Cardinality(DOMAIN PublishedView.stations) = 1
    /\ PublishedView.stations = published.stations

\* The last record of a feed with the given id.
LastRecord(stations, id) ==
    stations[CHOOSE k \in DOMAIN stations :
                /\ stations[k].StationID = id
                /\ \A j \in DOMAIN stations : stations[j].StationID = id => j <= k]

\* The Snapshot of a metadata feed and a status feed: one station for every
\* id both feeds have, with the name of the one and the counts of the other.
SnapshotOf(information, status) ==
    [id \in IdsOf(information) \cap IdsOf(status) |->
        [StationID |-> id,
         Name |-> LastRecord(information, id).Name,
         NumberOfDocksAvailable |-> LastRecord(status, id).NumberOfDocksAvailable,
         NumberOfBikesAvailable |-> LastRecord(status, id).NumberOfBikesAvailable]]

\* The view is empty and nothing was published, or it holds the stations
\* last published.
ViewIsPublished ==
    IF published.cycle = 0
    THEN ~PublishedView.found
    ELSE /\ PublishedView.found
         /\ ~PublishedView.isnil
         /\ PublishedView.stations = published.stations

\* What is published is what the call of fetchData that has just returned
\* without error joined from the two feeds it received.
PublishesOneCycle ==
    published' # published =>
        /\ Returned
        /\ ret.err = NoError
        /\ Succeeded("information") /\ Succeeded("status")
        /\ published'.cycle = cycle
        /\ published'.stations =
              SnapshotOf(got["information"].Feed.Stations, got["status"].Feed.Stations)

\* C14: in every state the Published View is empty, or it is the Snapshot
\* that one successful call of fetchData returned, joined from the metadata
\* feed and the status feed which that call received: never data of a failed
\* cycle, never a station of one feed only, never feeds of two cycles.
C14_ViewIsOneCyclesSnapshot == []ViewIsPublished /\ [][PublishesOneCycle]_vars

\* The second cycle has published its Snapshot over that of the first, and
\* the two differ.
C14_Witness ==
    /\ published.cycle = 2
    /\ viewBefore.found
    /\ viewBefore.stations # PublishedView.stations
    /\ PublishedView.stations # EmptyMap
    /\ PublishedView.stations = published.stations

\* C15: once a refresh cycle has succeeded, every read of the cache finds a
\* Snapshot, however many later cycles fail and however much time passes:
\* the item does not expire, and no handler that read after a success has
\* answered 500.
C15_PublishedStaysReadable ==
    /\ published.cycle > 0 => \A elapsed \in BOOLEAN : Get(stationsCache, elapsed)
    /\ \A r \in Answered("AllStations") \cup Answered("SingleStation") :
          readers[r].at > 0 => readers[r].code # StatusInternalServerError

\* The first cycle succeeded, the second failed, and the Snapshot of the
\* first is what a handler has answered from.
C15_Witness ==
    /\ CycleFailed
    /\ cycle = 2
    /\ published.cycle = 1
    /\ \E r \in Answered("AllStations") :
          /\ readers[r].code = StatusOK
          /\ readers[r].at = 1
          /\ readers[r].seen = PublishedView.stations
          /\ readers[r].seen # EmptyMap

\* C16: refresh cycles never overlap: the loop has at most one call of
\* fetchData that it has not handled yet, a cycle begins only when the
\* outcome of the one before was published or logged, and between two cycles
\* no fetch of the loop is in flight.
C16_CyclesDoNotOverlap ==
    /\ cycle - handled \in {0, 1}
    /\ upc = "fetching" <=> cycle = handled + 1
    /\ upc \in {"start", "sleep"} =>
          /\ fdpc = "idle"
          /\ \A f \in Feeds : gpc[f] = "none" /\ channel[f] = NoValue

\* The fetches of the second cycle are in flight, and the outcome of the
\* first cycle has been handled.
C16_Witness ==
    /\ upc = "fetching"
    /\ cycle = 2
    /\ handled = 1
    /\ fdpc = "select"
    /\ \A f \in Feeds : gpc[f] # "none" /\ got[f].none

\* The success branch of updateStationsCache is being taken.
StoresSnapshot == upc = "fetching" /\ Returned /\ ret.err = NoError /\ upc' = "sleep"

\* C17: the only step that changes the cached Snapshot is the success
\* branch of updateStationsCache; a step of Root, AllStations or
\* SingleStation leaves the cache item, the Published View and the refresh
\* loop as they are.
C17_OnlySuccessBranchWrites ==
    [][/\ (stationsCache' # stationsCache \/ PublishedView' # PublishedView)
             => StoresSnapshot
       /\ readers' # readers
             => /\ stationsCache' = stationsCache
                /\ PublishedView' = PublishedView
                /\ UNCHANGED loopVars]_vars

\* Root has answered after the first cycle published a Snapshot with
\* stations, and the view still holds that Snapshot.
C17_Witness ==
    /\ \E r \in Answered("Root") : readers[r].at = 1 /\ readers[r].code = StatusOK
    /\ published.cycle = 1
    /\ PublishedView.stations = published.stations
    /\ PublishedView.stations # EmptyMap

\* A handler can take its next step.
CanProceed(r) ==
    IF readers[r].pc = "range"
    THEN ENABLED (AllStationsRange(r) \/ AllStationsRespond(r))
    ELSE /\ ENABLED Root(r)
         /\ ENABLED AllStationsGet(r)
         /\ \A stationID \in RequestIDs : ENABLED SingleStation(r, stationID)

\* A step of a handler leaves fetchData and its goroutines alone.
HandlersDoNotFetch ==
    readers' # readers =>
        UNCHANGED <<fdpc, i, gpc, channel, closed, received, got, requests,
                    informationMap, statusMap, err, ret, cycle, upc>>

\* C18: handlers never wait for upstream I/O: in every state of the refresh
\* loop, also while its fetches are in flight, every handler can take its
\* next step up to its response, and no step of a handler starts or touches
\* a fetch.
C18_ReadersNeverWait == [](\A r \in Readers : CanProceed(r)) /\ [][HandlersDoNotFetch]_vars

\* AllStations is half way through its Snapshot while both fetches of a
\* cycle are in flight.
C18_Witness ==
    /\ upc = "fetching"
    /\ fdpc = "select"
    /\ \A f \in Feeds : gpc[f] = "running"
    /\ \E r \in Readers :
          /\ readers[r].pc = "range"
          /\ Len(readers[r].stations) = 1
          /\ readers[r].todo # {}

\* Both fetches of cycle n have returned a decoded feed.
FeedsSucceed(n) ==
    /\ cycle = n
    /\ upc = "fetching"
    /\ \A f \in Feeds :
          \/ ~channel[f].none /\ channel[f].Error = NoError
          \/ Succeeded(f)

\* The view holds the Snapshot cycle n published.
Publishes(n) ==
    /\ published.cycle = n
    /\ PublishedView.found
    /\ PublishedView.stations = published.stations

\* When fetchData has failed, the next step of the loop is the sleep: the
\* cycle is not run again.
FailedCycleSleeps ==
    (upc = "fetching" /\ Returned /\ ret.err # NoError /\ upc' # upc) =>
        /\ upc' = "sleep"
        /\ cycle' = cycle
        /\ \A f \in Feeds : gpc'[f] = "none"

\* C19: the refresh loop goes on whatever fails: every cycle up to MaxCycles
\* is begun and handled; a failed cycle is followed by the sleep and not by
\* another attempt; and, the scheduler being fair and every fetch returning,
\* a cycle whose two fetches succeed leads to the view holding the Snapshot
\* of that cycle.
C19_LoopKeepsRefreshing ==
    /\ <>(cycle = MaxCycles /\ upc = "sleep")
    /\ \A n \in 1..MaxCycles : FeedsSucceed(n) ~> Publishes(n)
    /\ [][FailedCycleSleeps]_vars

\* After a failed first cycle, the second cycle has published its Snapshot.
C19_Witness ==
    /\ cycle = 2
    /\ CycleSucceeded
    /\ ~viewBefore.found
    /\ Publishes(2)
    /\ PublishedView.stations # EmptyMap

----------------------------------------------------------------------------
(* Properties of the join (Spec) *)

\* The row of "terminal" for an id: the station of the Snapshot without its id.
RowOf(information, status, id) ==
    [Name |-> LastRecord(information, id).Name,
     NumberOfDocksAvailable |-> LastRecord(status, id).NumberOfDocksAvailable,
     NumberOfBikesAvailable |-> LastRecord(status, id).NumberOfBikesAvailable]

\* C20: every station that fetchData emits carries the name of the metadata
\* record with its id and the bikes count and docks count of the status
\* record with that same id: no count of another station, and bikes and
\* docks not exchanged.
C20_RecordJoinsOneStation ==
    (Returned /\ ret.err = NoError /\ variant \in JoiningVariants) =>
        LET information == got["information"].Feed.Stations
            status == got["status"].Feed.Stations
            ids == IdsOf(information) \cap IdsOf(status)
        IN  /\ variant = "server" =>
                  ReturnedStations = SnapshotOf(information, status)
            /\ variant = "terminal" =>
                  /\ \A k \in DOMAIN ReturnedStations :
                        \E id \in ids : ReturnedStations[k] = RowOf(information, status, id)
                  /\ \A id \in ids :
                        \E k \in DOMAIN ReturnedStations :
                           ReturnedStations[k] = RowOf(information, status, id)

\* The Snapshot of "server" has two stations whose names and bikes counts
\* differ, and the bikes counts differ from the docks counts.
C20_Witness ==
    /\ Returned /\ variant = "server" /\ ret.err = NoError
    /\ DOMAIN ReturnedStations = StationIDs
    /\ ReturnedStations["627"].Name # ReturnedStations["623"].Name
    /\ ReturnedStations["627"].NumberOfBikesAvailable
          # ReturnedStations["623"].NumberOfBikesAvailable
    /\ \A id \in StationIDs :
          ReturnedStations[id].NumberOfBikesAvailable
             # ReturnedStations[id].NumberOfDocksAvailable

\* The set of stations and the signal that the join yields when it is run
\* on the two results received, with the receive loop taking them in the
\* given order and the range over informationMap visiting the keys in the
\* given order.
JoinAgain(order, rangeOrder) ==
    LET o == LoopOutcome(order)
    IN  [stations |->
            IF variant = "server"
            THEN ValuesOf(JoinServer(o.informationMap, o.statusMap))
            ELSE ValuesOf(SortByName(JoinTerminal(rangeOrder, o.informationMap,
                                                  o.statusMap))),
         signal |-> MissingStatus(o.informationMap, o.statusMap)]

\* C21: the join run again on the same two decoded feeds yields the same
\* set of joined stations and the same signal as fetchData returned,
\* whichever of the two results is received first and in whichever order
\* the range visits the keys of informationMap.
C21_JoinIsIdempotent ==
    (Returned /\ variant \in JoiningVariants /\ ret.err = NoError) =>
        \A order \in {received, OtherOrder} :
            \A rangeOrder \in RangeOrders(DOMAIN LoopOutcome(order).informationMap) :
                /\ JoinAgain(order, rangeOrder).stations = ValuesOf(ReturnedStations)
                /\ JoinAgain(order, rangeOrder).signal = SignalRaised

\* "terminal" has joined two metadata stations of which the first listed
\* has no status.
C21_Witness ==
    /\ Returned /\ variant = "terminal" /\ ret.err = NoError
    /\ MetadataIds = StationIDs
    /\ StatusIds = {"623"}
    /\ Len(ReturnedStations) = 1
    /\ SignalRaised

\* C22: the list that fetchData of "terminal" returns is in ascending order
\* of Name, whatever the order of the stations in the feeds, the order of
\* the range over informationMap and the order in which the two results
\* are received.
C22_TerminalListSortedByName ==
    (Returned /\ variant = "terminal" /\ ret.err = NoError) =>
        \A a, b \in DOMAIN ReturnedStations :
            a < b => NameRank(ReturnedStations[a].Name) <= NameRank(ReturnedStations[b].Name)

\* The metadata feed lists the station with the later name first, the status
\* result is received first, and the list returned begins with the earlier
\* name.
C22_Witness ==
    /\ Returned /\ variant = "terminal" /\ ret.err = NoError
    /\ received = <<"status", "information">>
    /\ Len(got["information"].Feed.Stations) = 2
    /\ got["information"].Feed.Stations[1].Name = NameOrder[2]
    /\ got["information"].Feed.Stations[2].Name = NameOrder[1]
    /\ Len(ReturnedStations) = 2
    /\ ReturnedStations[1].Name = NameOrder[1]
    /\ ReturnedStations[2].Name = NameOrder[2]

----------------------------------------------------------------------------
(* Properties of the requests and of the channels of fetchData (Spec) *)

\* The request the tests expect for a feed.
ExpectedRequest(feed) ==
    [method |-> "GET",
     url |-> IF feed = "status" THEN stationStatusAddress ELSE stationInformationAddress,
     header |-> [Client_Identifier |-> clientIdentifier]]

\* C23: a call of fetchData issues exactly one request for each feed, a GET
\* of the address of that feed with the Client-Identifier header: none
\* before the fetch of the feed has run, one from then on, and never a
\* second one, also when the request failed.
C23_OneRequestPerFeed ==
    \A f \in Feeds :
        /\ gpc[f] \in {"none", "running"} => requests[f] = <<>>
        /\ gpc[f] \in {"sending", "done"} => requests[f] = <<ExpectedRequest(f)>>
        /\ Returned => Len(requests[f]) = 1

\* fetchData has returned the error of a failed status request, and each
\* feed was requested once.
C23_Witness ==
    /\ Returned
    /\ Failed("status") /\ Succeeded("information")
    /\ got["status"].Error = StatusError(stationStatusAddress, StatusInternalServerError)
    /\ ret.err = got["status"].Error
    /\ \A f \in Feeds : requests[f] = <<ExpectedRequest(f)>>

\* How often fetchData has received from the channel of a feed.
Receives(feed) == Cardinality({k \in DOMAIN received : received[k] = feed})

\* C24: each fetch goroutine sends exactly once on every path and fetchData
\* receives exactly one value from each channel before the deferred close
\* calls run: a goroutine that has its result is blocked in the send until
\* fetchData receives it, a channel is closed only when its goroutine is
\* past the send, and at the return no goroutine is left in a send.
C24_OneSendOneReceive ==
    \A f \in Feeds :
        /\ gpc[f] = "sending" <=> ~channel[f].none
        /\ gpc[f] = "done" <=> ~got[f].none
        /\ Receives(f) = IF got[f].none THEN 0 ELSE 1
        /\ closed[f] => gpc[f] = "done"
        /\ Returned => closed[f] /\ gpc[f] = "done" /\ Receives(f) = 1

\* Both fetches failed, on a transport error and on a decode error; both
\* results were received, information first, and the channels are closed.
C24_Witness ==
    /\ Returned
    /\ received = <<"information", "status">>
    /\ got["information"].Error = IOError(stationInformationAddress)
    /\ got["status"].Error = EOFError
    /\ \A f \in Feeds : closed[f] /\ gpc[f] = "done"

\* fetchData or one of its goroutines can take a step.
CanStep ==
    ENABLED (GoFetchStationStatus \/ GoFetchStationInformation
                \/ SelectStatus \/ SelectInformation \/ ReturnFetchData)

\* C25: fetchData terminates when both fetches return: a call that is in
\* progress is never stuck, whatever the interleaving and whichever feeds
\* fail, and it leads to the return.
C25_FetchDataTerminates ==
    /\ [](fdpc = "select" => CanStep)
    /\ (fdpc = "select") ~> Returned

\* fetchData has returned after the status fetch succeeded and was received
\* first and the information fetch failed.
C25_Witness ==
    /\ Returned
    /\ received = <<"status", "information">>
    /\ Succeeded("status")
    /\ Failed("information")
    /\ ret.err = got["information"].Error
    /\ i = 2

----------------------------------------------------------------------------
(* Properties of the Snapshot as an object, and of reads (SpecServer) *)

\* The map objects the cache or a handler refers to.
HeldReferences ==
    ({stationsCache.object.ref} \cup {readers[r].cachedStations.ref : r \in Readers}) \ {0}

\* A step leaves every map object that is held as it is, keeps those that
\* are still held, and a Set stores a map object that nothing held before.
HeldMapsStay ==
    /\ \A x \in HeldReferences :
          /\ x \in DOMAIN heap
          /\ x \in DOMAIN heap' => heap'[x] = heap[x]
          /\ x \in HeldReferences' => x \in DOMAIN heap'
    /\ stationsCache' # stationsCache =>
          stationsCache'.object.ref \notin HeldReferences

\* C26: a Snapshot is never modified after it was published: every cycle
\* stores a map object of its own, and no step of the loop or of a handler
\* changes a map object that the cache or a handler refers to, so a handler
\* sees the same stations for as long as it uses the map, also when later
\* cycles publish.
C26_PublishedMapIsNeverWritten == [][HeldMapsStay]_vars

\* A handler that read the Snapshot of cycle 1 is still ranging over it,
\* unchanged, after cycle 2 has published another one.
C26_Witness ==
    /\ published.cycle = 2
    /\ \E r \in Readers :
          /\ readers[r].pc = "range"
          /\ readers[r].at = 1
          /\ readers[r].cachedStations.ref # stationsCache.object.ref
          /\ heap[readers[r].cachedStations.ref] = readers[r].seen
          /\ readers[r].seen # published.stations
          /\ readers[r].seen # EmptyMap

\* A step in which the handler of a request reads the cache.
Reads(r) ==
    /\ readers[r].pc \in {"idle", "responded"}
    /\ readers'[r] # readers[r]
    /\ readers'[r].handler \in {"AllStations", "SingleStation"}

\* A read returns what was published last; the cycle it is of is not
\* earlier than that of the read before, and the cycle published never
\* goes back.
ReadsLatest ==
    /\ published'.cycle >= published.cycle
    /\ \A r \in Readers :
          Reads(r) =>
             /\ readers'[r].at = published.cycle
             /\ readers'[r].at >= readers[r].at
             /\ published.cycle > 0 =>
                   /\ readers'[r].code # StatusInternalServerError
                   /\ readers'[r].seen = published.stations

\* C28: reads are monotonic in the refresh cycles: a read returns the
\* Snapshot of the last cycle that has published when it begins, so never
\* the Snapshot of a cycle earlier than one an earlier read returned, and
\* after the publish of cycle n that of cycle n or of a later cycle.
C28_ReadsAreMonotonic == [][ReadsLatest]_vars

\* SingleStation has answered from the Snapshot of cycle 2, which differs
\* from the Snapshot that cycle 1 had published.
C28_Witness ==
    /\ published.cycle = 2
    /\ viewBefore.found
    /\ viewBefore.stations # published.stations
    /\ \E r \in Answered("SingleStation") :
          /\ readers[r].at = 2
          /\ readers[r].code = StatusOK
          /\ readers[r].seen = published.stations

----------------------------------------------------------------------------
(* Properties of the response body (SpecFetch) *)

\* C29: in every program, when fetch has obtained a response, the body of
\* the response is closed when fetch returns, on every path, the status
\* error path included.
C29_BodyClosedOnEveryPath ==
    (call.fn = "fetch" /\ ~call.resp.ioError) => ~call.out.bodyOpen

----------------------------------------------------------------------------
(* Properties of the lookups (Spec) *)

\* The lookup fetchData keeps for a feed.
LookupOf(feed) == IF feed = "status" THEN statusMap ELSE informationMap

\* C30: when a feed lists a station id more than once, the lookup of the
\* feed holds the last record with that id, the join of "server" takes the
\* name and the counts from these last records, and the Snapshot holds the
\* id once.
C30_LastOccurrenceWins ==
    /\ \A f \in Feeds :
          Succeeded(f) =>
             /\ DOMAIN LookupOf(f) = IdsOf(got[f].Feed.Stations)
             /\ \A id \in DOMAIN LookupOf(f) :
                   LookupOf(f)[id] = LastRecord(got[f].Feed.Stations, id)
    /\ (Returned /\ variant = "server" /\ ret.err = NoError) =>
          \A id \in MetadataIds \cap StatusIds :
             /\ Cardinality({x \in DOMAIN ReturnedStations :
                                ReturnedStations[x].StationID = id}) = 1
             /\ ReturnedStations[id].Name =
                   LastRecord(got["information"].Feed.Stations, id).Name
             /\ ReturnedStations[id].NumberOfBikesAvailable =
                   LastRecord(got["status"].Feed.Stations, id).NumberOfBikesAvailable

\* Both feeds list station 627 twice, with two names and two bikes counts,
\* and the Snapshot of "server" has the one station with the second name
\* and the second count.
C30_Witness ==
    /\ Returned /\ variant = "server" /\ ret.err = NoError
    /\ LET information == got["information"].Feed.Stations
           status == got["status"].Feed.Stations
       IN  /\ Len(information) = 2 /\ Len(status) = 2
           /\ \A k \in 1..2 : information[k].StationID = "627" /\ status[k].StationID = "627"
           /\ information[1].Name # information[2].Name
           /\ status[1].NumberOfBikesAvailable # status[2].NumberOfBikesAvailable
           /\ DOMAIN ReturnedStations = {"627"}
           /\ ReturnedStations["627"].Name = information[2].Name
           /\ ReturnedStations["627"].NumberOfBikesAvailable
                 = status[2].NumberOfBikesAvailable

----------------------------------------------------------------------------
(* Properties of the table (SpecTerminal) *)

\* The cycle of "terminal" that has just been drawn.
Drawn == variant = "terminal" /\ upc = "sleep"

\* C27: in updateTable a failed cycle leaves the rows of the table as they
\* were and only sets the frame message to the failure text; a successful
\* cycle replaces the rows by the header and one row for each station of
\* the new list, none of the old rows staying, and sets the frame message to
\* the message of the cycle, which is empty when no status was missing.
C27_TableFollowsCycle ==
    Drawn =>
        IF ret.err # NoError
        THEN /\ table = viewBefore.table
             /\ frameMessage = MessageFetchFailed
        ELSE /\ Len(table) = 1 + Len(ReturnedStations)
             /\ table[1] = HeaderRow
             /\ \A k \in DOMAIN ReturnedStations : table[k + 1][1] = ReturnedStations[k].Name
             /\ frameMessage = IF \E id \in MetadataIds : id \notin StatusIds
                               THEN MessageMissingStatus ELSE MessageNone

\* The second cycle failed: the table still has the header and the two
\* rows the first cycle drew, under the failure text.
C27_Witness ==
    /\ Drawn
    /\ cycle = 2
    /\ ret.err # NoError
    /\ Len(table) = 3
    /\ table = viewBefore.table
    /\ viewBefore.message = MessageNone
    /\ frameMessage = MessageFetchFailed

\* The column of the table whose header cell has the given text.
ColumnHeaded(text) == CHOOSE c \in DOMAIN HeaderRow : table[1][c] = text

\* C31: in the table of "terminal" every station row shows the available
\* docks of the station in the column headed "Tilgjengelige laser" and its
\* available bikes in the column headed "Ledige sykler".
C31_CountsUnderTheirHeaders ==
    (Drawn /\ ret.err = NoError) =>
        \A k \in DOMAIN ReturnedStations :
            /\ table[k + 1][ColumnHeaded(" Tilgjengelige laser ")]
                   = ToString(ReturnedStations[k].NumberOfDocksAvailable)
            /\ table[k + 1][ColumnHeaded(" Ledige sykler ")]
                   = ToString(ReturnedStations[k].NumberOfBikesAvailable)

====
